---- MODULE Spec2Model ----
(***************************************************************************)
(* Model of stable_baselines3/dsrl/dsrl.py: the DSRL (noise-aliased SAC)   *)
(* update engine.  The state is the DSRL object's fields, the local        *)
(* variables of train() and the position inside train(); one action per    *)
(* block of train(), one for _setup_model and one for _sample_action.      *)
(*                                                                         *)
(* Numbers.  A Python/torch float is the record [s, e, m]: sign s,         *)
(* binary exponent e and a tag m naming the significand ("1" for a power   *)
(* of two, "1.6" for the binary64 significand of 0.2, "1.6f" for its       *)
(* binary32 rounding, ...), so that the float32 casts of the code are not  *)
(* the identity.  log_ent_coef is kept in units of ln 2, hence             *)
(* exp(log_ent_coef) = 2^log_ent_coef.  Networks are abstracted to the     *)
(* number of optimizer steps applied to them.                              *)
(***************************************************************************)
EXTENDS Integers, Sequences, FiniteSets, TLC

\* ------------------------------------------------------------------ bounds
MaxG == 3            \* gradient_steps of one train call ranges over 1..MaxG
MaxK == 4            \* actor_gradient_steps ranges over {-1} \cup 1..MaxK
MaxUpdates == 5      \* gradient steps per run: train is called while _n_updates allows
MaxInterval == 2     \* target_update_interval ranges over 1..MaxInterval
MaxNoiseSteps == 2   \* noise_critic_grad_steps ranges over 0..MaxNoiseSteps
MaxLogStep == 75     \* size of one Adam step on log_ent_coef (units of ln 2)
ActChunk == 2        \* diffusion_act_dim[0], the action chunk length
ActDim == 1          \* diffusion_act_dim[1]
ActionLow == 0       \* the action space is Box(ActionLow, ActionHigh)
ActionHigh == 1
MaxTimesteps == 1    \* num_timesteps and learning_starts range over 0..MaxTimesteps
BatchSize == 2       \* transitions in the sampled batch
NCritics == 2        \* members of the target critic ensemble

\* --------------------------------------------------------- float32 format
F32MinExp == -149    \* exponent of the smallest positive float32 (2^-149)

\* ------------------------------------------------------------ float values
Zero == [s |-> 0, e |-> 0, m |-> "0"]
Pow2(x) == [s |-> 1, e |-> x, m |-> "1"]
Neg(v) == [v EXCEPT !.s = 0 - v.s]

\* v > 0.0 as Python and torch evaluate it (False for nan)
IsPositive(v) == v.s = 1

\* the 24-bit rounding of a binary64 significand
RoundSignificand24(m) ==
    CASE m = "1.6" -> "1.6f"
      [] m = "1.87" -> "1.87f"
      [] OTHER -> m

\* cast of a binary64 value to torch's default dtype float32
ToFloat32(v) ==
    IF v.s = 0 THEN v
    ELSE IF v.e < F32MinExp - 1 THEN Zero
    ELSE IF v.e = F32MinExp - 1
         THEN (IF v.m = "1" THEN Zero ELSE [s |-> v.s, e |-> F32MinExp, m |-> "1"])
    ELSE [v EXCEPT !.m = RoundSignificand24(v.m)]

\* ----------------------------------------------------------------- strings
\* a Python str is the tuple of its characters
s_auto == <<"a", "u", "t", "o">>
s_auto_half == <<"a", "u", "t", "o", "_", "0", ".", "5">>
s_auto_zero == <<"a", "u", "t", "o", "_", "0">>
s_auto_tiny == <<"a", "u", "t", "o", "_", "1", "e", "-", "5", "0">>
s_auto_empty == <<"a", "u", "t", "o", "_">>
s_auto0_5 == <<"a", "u", "t", "o", "0", ".", "5">>
s_x == <<"x">>
s_0_2 == <<"0", ".", "2">>

\* str.startswith
StartsWith(str, prefix) ==
    /\ Len(str) >= Len(prefix)
    /\ SubSeq(str, 1, Len(prefix)) = prefix

\* the `in` operator on a str and a character
Contains(str, ch) == \E i \in 1..Len(str) : str[i] = ch

\* positions of ch in str
Positions(str, ch) == {i \in 1..Len(str) : str[i] = ch}

Min(S) == CHOOSE x \in S : \A y \in S : x <= y

\* str.split(ch)[1], for a str that contains ch
SplitSecond(str, ch) ==
    LET first == Min(Positions(str, ch))
        later == {i \in Positions(str, ch) : i > first}
        stop == IF later = {} THEN Len(str) + 1 ELSE Min(later)
    IN SubSeq(str, first + 1, stop - 1)

\* float(str): the literals of the model's inputs; every other str raises
FloatLiterals ==
    [lit \in {<<"1">>, <<"2">>, <<"0", ".", "5">>, <<"0", ".", "2">>, <<"0">>,
              <<"-", "1">>, <<"1", "e", "-", "5", "0">>} |->
        CASE lit = <<"1">> -> Pow2(0)
          [] lit = <<"2">> -> Pow2(1)
          [] lit = <<"0", ".", "5">> -> Pow2(-1)
          [] lit = <<"0", ".", "2">> -> [s |-> 1, e |-> -3, m |-> "1.6"]
          [] lit = <<"0">> -> Zero
          [] lit = <<"-", "1">> -> Neg(Pow2(0))
          [] lit = <<"1", "e", "-", "5", "0">> -> [s |-> 1, e |-> -167, m |-> "1.87"]]

CanParseFloat(str) == str \in DOMAIN FloatLiterals
ParseFloat(str) == FloatLiterals[str]

\* a Python value tagged with its type, for isinstance
Str(chars) == [type |-> "str", v |-> chars]
Float(x) == [type |-> "float", f |-> x]

None == [k |-> "None"]
NegInf == [k |-> "-inf"]
Finite(x) == [k |-> "val", v |-> x]

\* th.log of a float32 value (units of ln 2; the inputs are 0 or powers of two)
Log(v) == IF v.s = 0 THEN NegInf ELSE Finite(v.e)

\* the coefficient taken to be log_ent_coef itself, without the exponential
LogItself(l) ==
    IF l = NegInf THEN [s |-> -1, e |-> 0, m |-> "inf"]
    ELSE IF l.v = 0 THEN Zero
    ELSE IF l.v > 0 THEN [s |-> 1, e |-> 0, m |-> "log"]
    ELSE [s |-> -1, e |-> 0, m |-> "log"]

\* th.exp of the float32 log_ent_coef: 2^l rounded to float32
Exp(l) == IF l = NegInf THEN Zero ELSE ToFloat32(Pow2(l.v))

\* np.mean of a non-empty list of floats
Mean(list) ==
    IF \A i \in 1..Len(list) : list[i] = list[1]
    THEN list[1]
    ELSE [s |-> 1, e |-> 0, m |-> "mean", of |-> list]


\* ------------------------------------------------------------------- state
VARIABLES
    pc,                          \* "new", "idle", "setup_error", "raised", or a position in train
    self_ent_coef,               \* self.ent_coef, as passed to __init__
    target_update_interval,
    actor_gradient_steps,
    noise_critic_grad_steps,
    critic_backup_combine_type,
    log_ent_coef,                \* None, NegInf or Finite(l)
    ent_coef_optimizer,          \* "None" or "Adam"
    ent_coef_tensor,             \* None or a float32 value
    actor, critic, critic_noise, \* optimizer steps applied to each network
    critic_target,               \* [n: Polyak updates applied, src: critic version last blended in]
    n_updates,                   \* self._n_updates
    logger,                      \* the metrics recorded by the last train call
    gradient_steps,              \* train's argument
    gradient_step,               \* loop index of the running loop
    actor_gradient_idx,          \* the set of values of the index array
    ent_coef,                    \* train's local ent_coef
    ent_coefs, ent_coef_losses,  \* the lists of train (losses by length)
    actor_losses, critic_losses, noise_critic_losses,
    next_q_values,               \* what the last critic backup was computed from
    calls,                       \* history: train calls started
    at_call,                     \* history: network versions when the running call started
    log_read,                    \* history: the log_ent_coef that ent_coef was computed from
    synced_at,                   \* history: call and gradient step of the last target update
    sync_log,                    \* history: per gradient step since setup, did the target update run
    distill_reads,               \* history: critic versions read by this call's distillation steps
    num_timesteps,               \* self.num_timesteps
    use_sde, use_sde_at_warmup,
    last_obs,                    \* self._last_obs
    diffusion_policy,            \* which decoder was supplied
    sampled,                     \* None, or what the last _sample_action computed and returned
                                 \* (seen: the sampler states taken so far)
    replay_data,                 \* the sampled batch: [rewards, dones], one entry per transition
    next_log_prob,               \* the actor's log-probabilities of the next actions
    critic_target_out,           \* the target critics' outputs: one column per critic
    target_q_values,             \* None, or the TD targets: one row per transition
    actor_loss                   \* None, or the latest actor loss: [ent_coef], its coefficient

cfgVars == <<self_ent_coef, target_update_interval, actor_gradient_steps,
             noise_critic_grad_steps, critic_backup_combine_type>>
entVars == <<log_ent_coef, ent_coef_optimizer, ent_coef_tensor>>
netVars == <<actor, critic, critic_noise, critic_target>>
listVars == <<ent_coefs, ent_coef_losses, actor_losses, critic_losses, noise_critic_losses>>
histVars == <<calls, at_call, log_read, synced_at, sync_log, distill_reads>>
sampleVars == <<num_timesteps, use_sde, use_sde_at_warmup, last_obs, diffusion_policy, sampled>>
backupVars == <<replay_data, next_log_prob, critic_target_out, target_q_values>>

vars == <<pc, cfgVars, sampleVars, backupVars, actor_loss, entVars, netVars, n_updates, logger, gradient_steps,
          gradient_step, actor_gradient_idx, ent_coef, listVars, next_q_values,
          histVars>>

\* the ent_coef arguments tried
EntCoefInputs ==
    {Str(s_auto), Str(s_auto_half), Str(s_auto_zero), Str(s_auto_tiny),
     Str(s_auto_empty), Str(s_auto0_5), Str(s_x), Str(s_0_2),
     Float(ParseFloat(s_0_2)), Float(Pow2(-1)), Float(Zero), Float(Neg(Pow2(-1)))}

CombineInputs == {"min", "mean", "max"}

\* DSRL.__init__ with _init_setup_model, up to the call of _setup_model
Init ==
    /\ pc = "new"
    /\ self_ent_coef \in EntCoefInputs
    /\ target_update_interval \in 1..MaxInterval
    /\ actor_gradient_steps \in {-1} \cup 1..MaxK
    /\ noise_critic_grad_steps \in 0..MaxNoiseSteps
    /\ critic_backup_combine_type \in CombineInputs
    /\ log_ent_coef = None
    /\ ent_coef_optimizer = "None"
    /\ ent_coef_tensor = None
    /\ actor = 0 /\ critic = 0 /\ critic_noise = 0
    /\ critic_target = [n |-> 0, src |-> 0]
    /\ n_updates = 0
    /\ logger = [ent_coef |-> None, ent_coef_loss |-> FALSE]
    /\ gradient_steps = 0 /\ gradient_step = 0
    /\ actor_gradient_idx = {}
    /\ ent_coef = None
    /\ ent_coefs = <<>> /\ ent_coef_losses = 0
    /\ actor_losses = 0 /\ critic_losses = 0 /\ noise_critic_losses = 0
    /\ next_q_values = None
    /\ calls = 0 /\ at_call = [actor |-> 0, critic |-> 0, critic_noise |-> 0]
    /\ log_read = None /\ synced_at = None
    /\ sync_log = <<>> /\ distill_reads = {}
    /\ num_timesteps = 0
    /\ use_sde = FALSE /\ use_sde_at_warmup = FALSE
    /\ last_obs = 0
    /\ diffusion_policy = "affine"
    /\ sampled = None
    /\ replay_data = <<>> /\ next_log_prob = <<>> /\ critic_target_out = <<>>
    /\ target_q_values = None
    /\ actor_loss = None

\* -------------------------------------------------------------- _setup_model
\* the branch taken at line 190
IsAuto(c) == c.type = "str" /\ StartsWith(c.v, s_auto)

\* line 192-194: the initial value, or "ValueError" when float() raises
InitValue(c) ==
    IF Contains(c.v, "_")
    THEN (IF CanParseFloat(SplitSecond(c.v, "_"))
          THEN ParseFloat(SplitSecond(c.v, "_")) ELSE "ValueError")
    ELSE Pow2(0)

\* line 205: float(self.ent_coef), or "ValueError"
FixedValue(c) ==
    IF c.type = "float" THEN c.f
    ELSE IF CanParseFloat(c.v) THEN ParseFloat(c.v) ELSE "ValueError"

\* does _setup_model raise on this ent_coef (ValueError or the assertion of line 195)
SetupRaises(c) ==
    IF IsAuto(c)
    THEN \/ (Contains(c.v, "_") /\ ~CanParseFloat(SplitSecond(c.v, "_")))
         \/ (Contains(c.v, "_") /\ ~IsPositive(InitValue(c)))
    ELSE c.type = "str" /\ ~CanParseFloat(c.v)

\* _setup_model learning the coefficient from any value that parses
SetupModelAlwaysLearn ==
    /\ pc = "new"
    /\ IF SetupRaises(self_ent_coef)
       THEN /\ pc' = "setup_error"
            /\ UNCHANGED entVars
       ELSE /\ pc' = "idle"
            /\ log_ent_coef' = Log(ToFloat32(IF IsAuto(self_ent_coef)
                                             THEN InitValue(self_ent_coef)
                                             ELSE FixedValue(self_ent_coef)))
            /\ ent_coef_optimizer' = "Adam"
            /\ UNCHANGED ent_coef_tensor
    /\ UNCHANGED <<cfgVars, sampleVars, backupVars, actor_loss, netVars, n_updates, logger, gradient_steps, gradient_step,
                   actor_gradient_idx, ent_coef, listVars, next_q_values, histVars>>

SetupModel ==
    /\ pc = "new"
    /\ IF SetupRaises(self_ent_coef)
       THEN /\ pc' = "setup_error"
            /\ UNCHANGED entVars
       ELSE /\ pc' = "idle"
            /\ IF IsAuto(self_ent_coef)
               THEN /\ log_ent_coef' = Log(ToFloat32(InitValue(self_ent_coef)))
                    /\ ent_coef_optimizer' = "Adam"
                    /\ UNCHANGED ent_coef_tensor
               ELSE /\ ent_coef_tensor' = ToFloat32(FixedValue(self_ent_coef))
                    /\ UNCHANGED <<log_ent_coef, ent_coef_optimizer>>
    /\ UNCHANGED <<cfgVars, sampleVars, backupVars, actor_loss, netVars, n_updates, logger, gradient_steps, gradient_step,
                   actor_gradient_idx, ent_coef, listVars, next_q_values, histVars>>

\* --------------------------------------------------------------------- train
\* np.linspace(start, stop, num, dtype=int) as the set of its values: the
\* num evenly spaced points from start to stop, floored.  (numpy computes the
\* points in binary64; for stop < 31 the floors equal the exact ones.)
Linspace(start, stop, num) ==
    IF num = 1 THEN {start}
    ELSE {start + ((i * (stop - start)) \div (num - 1)) : i \in 0..(num - 1)}

\* lines 236-239 with the first index at int(G / K) instead of int(G / K) - 1
ActorGradientIdxNoOffset(G, K) ==
    IF K < 0 THEN Linspace(0, G - 1, G)
    ELSE Linspace(G \div K, G - 1, K)

\* lines 236-239
ActorGradientIdx(G, K) ==
    IF K < 0 THEN Linspace(0, G - 1, G)
    ELSE Linspace((G \div K) - 1, G - 1, K)

\* one optimizer.step() on a network: a new version of its parameters
OptimizerStep(net) == net + 1

\* polyak_update(params, target_params, tau): the target blends in params
PolyakUpdate(params, target) == [n |-> target.n + 1, src |-> params]

\* the values log_ent_coef can take after one Adam step
LogFloor == 0 - (2 * MaxLogStep + 2)
LogCeil == MaxLogStep + 2
AdamStep(l) ==
    IF l = NegInf THEN {NegInf}
    ELSE {Finite(l.v + d) : d \in {x \in {0 - MaxLogStep, MaxLogStep} :
                                     l.v + x >= LogFloor /\ l.v + x <= LogCeil}}

\* lines 221-241: entry of train(gradient_steps)
Train ==
    /\ pc = "idle"
    /\ \E G \in 1..MaxG :
         /\ n_updates + G <= MaxUpdates
         /\ gradient_steps' = G
         /\ actor_gradient_idx' = ActorGradientIdx(G, actor_gradient_steps)
    /\ gradient_step' = 0
    /\ ent_coefs' = <<>> /\ ent_coef_losses' = 0
    /\ actor_losses' = 0 /\ critic_losses' = 0 /\ noise_critic_losses' = 0
    /\ calls' = calls + 1
    /\ at_call' = [actor |-> actor, critic |-> critic, critic_noise |-> critic_noise]
    /\ distill_reads' = {}
    /\ actor_loss' = None
    /\ pc' = "ent"
    /\ UNCHANGED <<cfgVars, sampleVars, backupVars, entVars, netVars, n_updates, logger, ent_coef,
                   next_q_values, log_read, synced_at, sync_log>>

\* lines 258 and 264 moved below the optimizer step of lines 268-271: the
\* coefficient is read from the parameter the optimizer has just written
EntCoefStepReadsUpdated ==
    /\ pc = "ent"
    /\ IF ent_coef_optimizer # "None" /\ log_ent_coef # None
       THEN /\ log_ent_coef' \in AdamStep(log_ent_coef)
            /\ ent_coef' = Exp(log_ent_coef')
            /\ ent_coef_losses' = ent_coef_losses + 1
            /\ ent_coefs' = Append(ent_coefs, Exp(log_ent_coef'))
            /\ log_read' = log_ent_coef
       ELSE /\ ent_coef' = ent_coef_tensor
            /\ ent_coefs' = Append(ent_coefs, ent_coef_tensor)
            /\ UNCHANGED <<ent_coef_losses, log_ent_coef, log_read>>
    /\ pc' = "backup"
    /\ UNCHANGED <<cfgVars, sampleVars, backupVars, actor_loss, ent_coef_optimizer,
                   ent_coef_tensor, netVars, n_updates,
                   logger, gradient_steps, gradient_step, actor_gradient_idx,
                   actor_losses, critic_losses, noise_critic_losses, next_q_values,
                   calls, at_call, synced_at, sync_log, distill_reads>>

\* lines 243-271: sample, current coefficient, entropy optimizer step
EntCoefStep ==
    /\ pc = "ent"
    /\ IF ent_coef_optimizer # "None" /\ log_ent_coef # None
       THEN /\ ent_coef' = Exp(log_ent_coef)
            /\ ent_coef_losses' = ent_coef_losses + 1
            /\ ent_coefs' = Append(ent_coefs, Exp(log_ent_coef))
            /\ log_ent_coef' \in AdamStep(log_ent_coef)
            /\ log_read' = log_ent_coef
       ELSE /\ ent_coef' = ent_coef_tensor
            /\ ent_coefs' = Append(ent_coefs, ent_coef_tensor)
            /\ UNCHANGED <<ent_coef_losses, log_ent_coef, log_read>>
    /\ pc' = "backup"
    /\ UNCHANGED <<cfgVars, sampleVars, backupVars, actor_loss, ent_coef_optimizer, ent_coef_tensor, netVars, n_updates,
                   logger, gradient_steps, gradient_step, actor_gradient_idx,
                   actor_losses, critic_losses, noise_critic_losses, next_q_values,
                   calls, at_call, synced_at, sync_log, distill_reads>>

\* lines 273-288: the backup from the target critics
CriticBackup ==
    /\ pc = "backup"
    /\ next_q_values' =
         [combine |-> IF critic_backup_combine_type \in {"min", "mean"}
                      THEN critic_backup_combine_type ELSE "cat",
          target |-> critic_target,
          ent_coef |-> ent_coef]
    /\ pc' = "critic"
    /\ UNCHANGED <<cfgVars, sampleVars, backupVars, actor_loss, entVars, netVars, n_updates, logger, gradient_steps,
                   gradient_step, actor_gradient_idx, ent_coef, listVars, histVars>>

\* lines 290-302: critic loss and critic optimizer step
CriticStep ==
    /\ pc = "critic"
    /\ critic_losses' = critic_losses + 1
    /\ critic' = OptimizerStep(critic)
    /\ pc' = "actor"
    /\ UNCHANGED <<cfgVars, sampleVars, backupVars, actor_loss, entVars, actor, critic_noise, critic_target, n_updates,
                   logger, gradient_steps, gradient_step, actor_gradient_idx, ent_coef,
                   ent_coefs, ent_coef_losses, actor_losses, noise_critic_losses,
                   next_q_values, histVars>>

\* lines 304-319: actor loss and actor optimizer step on the selected steps;
\* with a combine type other than min/mean, min_qf_pi is unbound at line 313
ActorStep ==
    /\ pc = "actor"
    /\ IF gradient_step \in actor_gradient_idx
       THEN IF critic_backup_combine_type \in {"min", "mean"}
            THEN /\ actor_loss' = [ent_coef |-> ent_coef]
                 /\ actor_losses' = actor_losses + 1
                 /\ actor' = OptimizerStep(actor)
                 /\ pc' = "target"
            ELSE /\ pc' = "raised"
                 /\ UNCHANGED <<actor_loss, actor_losses, actor>>
       ELSE /\ pc' = "target"
            /\ UNCHANGED <<actor_loss, actor_losses, actor>>
    /\ UNCHANGED <<cfgVars, sampleVars, backupVars, entVars, critic, critic_noise, critic_target, n_updates,
                   logger, gradient_steps, gradient_step, actor_gradient_idx, ent_coef,
                   ent_coefs, ent_coef_losses, critic_losses, noise_critic_losses,
                   next_q_values, histVars>>

\* lines 321-325 moved above the critic optimizer step: the Polyak update
\* reads the critic as it was before this step's update
TargetUpdateBeforeCriticStep ==
    /\ pc = "target"
    /\ IF gradient_step % target_update_interval = 0
       THEN /\ critic_target' = PolyakUpdate(critic - 1, critic_target)
            /\ sync_log' = Append(sync_log, TRUE)
            /\ synced_at' = [call |-> calls, step |-> gradient_step]
       ELSE /\ sync_log' = Append(sync_log, FALSE)
            /\ UNCHANGED <<critic_target, synced_at>>
    /\ IF gradient_step + 1 < gradient_steps
       THEN /\ gradient_step' = gradient_step + 1
            /\ pc' = "ent"
       ELSE /\ pc' = "distill"
            /\ UNCHANGED gradient_step
    /\ UNCHANGED <<cfgVars, sampleVars, backupVars, actor_loss, entVars, actor, critic, critic_noise, n_updates, logger,
                   gradient_steps, actor_gradient_idx, ent_coef, listVars,
                   next_q_values, calls, at_call, log_read, distill_reads>>

\* lines 321-325 and the loop's next iteration (line 241)
TargetUpdate ==
    /\ pc = "target"
    /\ IF gradient_step % target_update_interval = 0
       THEN /\ critic_target' = PolyakUpdate(critic, critic_target)
            /\ sync_log' = Append(sync_log, TRUE)
            /\ synced_at' = [call |-> calls, step |-> gradient_step]
       ELSE /\ sync_log' = Append(sync_log, FALSE)
            /\ UNCHANGED <<critic_target, synced_at>>
    /\ IF gradient_step + 1 < gradient_steps
       THEN /\ gradient_step' = gradient_step + 1
            /\ pc' = "ent"
       ELSE /\ pc' = "distill"
            /\ UNCHANGED gradient_step
    /\ UNCHANGED <<cfgVars, sampleVars, backupVars, actor_loss, entVars, actor, critic, critic_noise, n_updates, logger,
                   gradient_steps, actor_gradient_idx, ent_coef, listVars,
                   next_q_values, calls, at_call, log_read, distill_reads>>

\* the distillation loop running once per gradient step of the call
NoiseCriticStepPerGradientStep ==
    /\ pc = "distill"
    /\ noise_critic_losses < gradient_steps
    /\ gradient_step' = noise_critic_losses
    /\ distill_reads' = distill_reads \cup {critic}
    /\ noise_critic_losses' = noise_critic_losses + 1
    /\ critic_noise' = OptimizerStep(critic_noise)
    /\ UNCHANGED <<pc, cfgVars, sampleVars, backupVars, actor_loss, entVars, actor, critic, critic_target, n_updates, logger,
                   gradient_steps, actor_gradient_idx, ent_coef, ent_coefs,
                   ent_coef_losses, actor_losses, critic_losses, next_q_values,
                   calls, at_call, log_read, synced_at, sync_log>>

\* a distillation step that also blends the noise critic into the target
NoiseCriticStepWithTarget ==
    /\ pc = "distill"
    /\ noise_critic_losses < noise_critic_grad_steps
    /\ gradient_step' = noise_critic_losses
    /\ distill_reads' = distill_reads \cup {critic}
    /\ noise_critic_losses' = noise_critic_losses + 1
    /\ critic_noise' = OptimizerStep(critic_noise)
    /\ critic_target' = PolyakUpdate(critic_noise, critic_target)
    /\ UNCHANGED <<pc, cfgVars, sampleVars, backupVars, actor_loss, entVars, actor, critic, n_updates, logger,
                   gradient_steps, actor_gradient_idx, ent_coef, ent_coefs,
                   ent_coef_losses, actor_losses, critic_losses, next_q_values,
                   calls, at_call, log_read, synced_at, sync_log>>

\* lines 327-335 and update_noise_critic (349-363): one distillation step; the
\* loop has run len(noise_critic_losses) iterations and rebinds gradient_step
NoiseCriticStep ==
    /\ pc = "distill"
    /\ noise_critic_losses < noise_critic_grad_steps
    /\ gradient_step' = noise_critic_losses
    /\ distill_reads' = distill_reads \cup {critic}
    /\ noise_critic_losses' = noise_critic_losses + 1
    /\ critic_noise' = OptimizerStep(critic_noise)
    /\ UNCHANGED <<pc, cfgVars, sampleVars, backupVars, actor_loss, entVars, actor, critic, critic_target, n_updates, logger,
                   gradient_steps, actor_gradient_idx, ent_coef, ent_coefs,
                   ent_coef_losses, actor_losses, critic_losses, next_q_values,
                   calls, at_call, log_read, synced_at, sync_log>>

\* lines 337-346: counters and metrics
Report ==
    /\ pc = "distill"
    /\ noise_critic_losses >= noise_critic_grad_steps
    /\ n_updates' = n_updates + gradient_steps
    /\ logger' = [ent_coef |-> Mean(ent_coefs), ent_coef_loss |-> ent_coef_losses > 0]
    /\ pc' = "idle"
    /\ UNCHANGED <<cfgVars, sampleVars, backupVars, actor_loss, entVars, netVars, gradient_steps, gradient_step,
                   actor_gradient_idx, ent_coef, listVars, next_q_values, histVars>>

\* ------------------------------------------------------------ _sample_action
ActionWidth == ActionHigh - ActionLow

\* a flat action of one environment: ActChunk * ActDim components
FlatIdx == 1..(ActChunk * ActDim)
RawActions == [FlatIdx -> ActionLow..ActionHigh]
ObsInputs == {0, 1}
DecoderInputs == {"affine", "reverse"}

\* action_noise(): None, or one value added to every component
\* (normalized actions are kept in units of 1 / ActionWidth)
NoiseInputs == {None, Finite(-2), Finite(2)}

\* policy.scale_action: [low, high] -> [-1, 1], 2 * (a - low) / (high - low) - 1
ScaleAction(a) == [i \in FlatIdx |-> 2 * (a[i] - ActionLow) - ActionWidth]

\* policy.unscale_action: low + 0.5 * (s + 1) * (high - low)
UnscaleAction(sc) == [i \in FlatIdx |-> ActionLow + ((sc[i] + ActionWidth) \div 2)]

\* np.clip(x, -1, 1)
Clip(x) == IF x < 0 - ActionWidth THEN 0 - ActionWidth
           ELSE IF x > ActionWidth THEN ActionWidth ELSE x

\* reshape(-1, chunk, dim) of the flat action of one environment
Reshape(flat) == [c \in 1..ActChunk |-> [d \in 1..ActDim |-> flat[(c - 1) * ActDim + d]]]

\* reshape(-1, chunk * dim)
Flatten(arr) == [i \in FlatIdx |-> arr[((i - 1) \div ActDim) + 1][((i - 1) % ActDim) + 1]]

\* the frozen decoder: a function of the observation and the chunked noise
Decode(kind, obs, arr) ==
    IF kind = "affine"
    THEN [c \in 1..ActChunk |-> [d \in 1..ActDim |-> 2 * arr[c][d] + obs + 1]]
    ELSE [c \in 1..ActChunk |-> [d \in 1..ActDim |-> arr[ActChunk + 1 - c][d] + obs]]

\* lines 419-428: which state the sampler is in
IsWarmup(learning_starts) ==
    num_timesteps < learning_starts /\ ~(use_sde /\ use_sde_at_warmup)

\* lines 433-435
AddNoise(scaled_action, noise) ==
    IF noise = None THEN scaled_action
    ELSE [i \in FlatIdx |-> Clip(scaled_action[i] + noise.v)]

\* line 438 alone: the normalized action stored, as in the base class
BufferActionScaled(scaled_action, action) == scaled_action

\* lines 438 and 449: the action stored for replay
BufferAction(scaled_action, action) == action

\* lines 397-450 on a Box action space; unscaled_action is action_space.sample()
\* in warmup and predict(self._last_obs) otherwise, both in [low, high]
SampleAction ==
    /\ pc = "idle"
    /\ \E learning_starts \in 0..MaxTimesteps, action_noise \in NoiseInputs,
          unscaled_action \in RawActions :
         LET scaled_action == AddNoise(ScaleAction(unscaled_action), action_noise)
             noise_action == UnscaleAction(scaled_action)
             action == Flatten(Decode(diffusion_policy, last_obs, Reshape(noise_action)))
             state == IF IsWarmup(learning_starts) THEN "warmup" ELSE "policy"
         IN sampled' = [state |-> state,
                        seen |-> (IF sampled = None THEN {} ELSE sampled.seen) \cup {state},
                        scaled_action |-> scaled_action,
                        noise_action |-> noise_action,
                        action |-> action,
                        buffer_action |-> BufferAction(scaled_action, action)]
    /\ UNCHANGED <<pc, cfgVars, backupVars, actor_loss, num_timesteps, use_sde, use_sde_at_warmup, last_obs,
                   diffusion_policy, entVars, netVars, n_updates, logger, gradient_steps,
                   gradient_step, actor_gradient_idx, ent_coef, listVars, next_q_values,
                   histVars>>

\* a set-up model with the default arguments, at any point of the rollout
InitSample ==
    /\ pc = "idle"
    /\ self_ent_coef = Str(s_auto)
    /\ target_update_interval = 1
    /\ actor_gradient_steps = -1
    /\ noise_critic_grad_steps = 1
    /\ critic_backup_combine_type = "min"
    /\ log_ent_coef = Finite(0)
    /\ ent_coef_optimizer = "Adam"
    /\ ent_coef_tensor = None
    /\ actor = 0 /\ critic = 0 /\ critic_noise = 0
    /\ critic_target = [n |-> 0, src |-> 0]
    /\ n_updates = 0
    /\ logger = [ent_coef |-> None, ent_coef_loss |-> FALSE]
    /\ gradient_steps = 0 /\ gradient_step = 0
    /\ actor_gradient_idx = {}
    /\ ent_coef = None
    /\ ent_coefs = <<>> /\ ent_coef_losses = 0
    /\ actor_losses = 0 /\ critic_losses = 0 /\ noise_critic_losses = 0
    /\ next_q_values = None
    /\ calls = 0 /\ at_call = [actor |-> 0, critic |-> 0, critic_noise |-> 0]
    /\ log_read = None /\ synced_at = None
    /\ sync_log = <<>> /\ distill_reads = {}
    /\ num_timesteps \in 0..MaxTimesteps
    /\ use_sde \in BOOLEAN /\ use_sde_at_warmup \in BOOLEAN
    /\ last_obs \in ObsInputs
    /\ diffusion_policy \in DecoderInputs
    /\ sampled = None
    /\ replay_data = <<>> /\ next_log_prob = <<>> /\ critic_target_out = <<>>
    /\ target_q_values = None
    /\ actor_loss = None

NextSample == SampleAction

SpecSample == InitSample /\ [][NextSample]_vars

\* ------------------------------------------------- the TD target, in numbers
\* Tensor entries are exact rationals [n, d] in lowest terms with d > 0.

RECURSIVE GCD(_, _)
GCD(a, b) == IF b = 0 THEN a ELSE GCD(b, a % b)

Abs(x) == IF x < 0 THEN 0 - x ELSE x

R(n, d) ==
    LET g == GCD(Abs(n), Abs(d))
        sg == IF d < 0 THEN 0 - 1 ELSE 1
    IN  [n |-> (sg * n) \div g, d |-> (sg * d) \div g]

RAdd(x, y) == R(x.n * y.d + y.n * x.d, x.d * y.d)
RSub(x, y) == R(x.n * y.d - y.n * x.d, x.d * y.d)
RMul(x, y) == R(x.n * y.n, x.d * y.d)
RLeq(x, y) == x.n * y.d <= y.n * x.d

gamma == R(99, 100)

\* replay_buffer.sample: one (reward, done, next_log_prob) triple per transition
TransitionInputs == {<<R(1, 1), R(0, 1), R(0 - 1, 1)>>,
                     <<R(1, 1), R(1, 1), R(2, 1)>>,
                     <<R(0 - 2, 1), R(0, 1), R(2, 1)>>}
QInputs == {R(3, 1), R(5, 1)}
EntCoefValues == {R(1, 5), R(1, 1)}

\* th.cat(columns, dim=1): row i holds every critic's output for transition i
Cat(columns) ==
    [i \in 1..Len(columns[1]) |-> [k \in 1..Len(columns) |-> columns[k][i]]]

RECURSIVE RowMin(_)
RowMin(row) ==
    IF Len(row) = 1 THEN row[1]
    ELSE LET m == RowMin(Tail(row))
         IN  IF RLeq(row[1], m) THEN row[1] ELSE m

RECURSIVE RowSum(_)
RowSum(row) == IF row = <<>> THEN R(0, 1) ELSE RAdd(row[1], RowSum(Tail(row)))

RowMean(row) == RMul(RowSum(row), R(1, Len(row)))

\* a mutant: every combine type takes the minimum
CombineAlwaysMin(type, q) == [i \in 1..Len(q) |-> <<RowMin(q[i])>>]

\* th.min / th.mean over dim=1 with keepdim=True; any other type leaves q as it is
Combine(type, q) ==
    IF type = "min" THEN [i \in 1..Len(q) |-> <<RowMin(q[i])>>]
    ELSE IF type = "mean" THEN [i \in 1..Len(q) |-> <<RowMean(q[i])>>]
    ELSE q

\* next_q_values - ent_coef * next_log_prob.reshape(-1, 1)
AddEntropyTerm(q, coef, logp) ==
    [i \in 1..Len(q) |-> [j \in 1..Len(q[i]) |-> RSub(q[i][j], RMul(coef, logp[i]))]]

\* rewards + (1 - dones) * gamma * next_q_values
TdTarget(rewards, dones, q) ==
    [i \in 1..Len(q) |->
        [j \in 1..Len(q[i]) |->
            RAdd(rewards[i], RMul(RMul(RSub(R(1, 1), dones[i]), gamma), q[i][j]))]]

TargetQValues ==
    /\ pc = "backup"
    /\ target_q_values' =
         TdTarget(replay_data.rewards, replay_data.dones,
                  AddEntropyTerm(Combine(critic_backup_combine_type, Cat(critic_target_out)),
                                 ent_coef, next_log_prob))
    /\ pc' = "critic"
    /\ UNCHANGED <<cfgVars, sampleVars, replay_data, next_log_prob, critic_target_out, actor_loss,
                   entVars,
                   netVars, n_updates, logger, gradient_steps, gradient_step,
                   actor_gradient_idx, ent_coef, listVars, next_q_values, histVars>>

InitBackup ==
    /\ pc = "backup"
    /\ self_ent_coef = Str(s_auto)
    /\ target_update_interval = 1
    /\ actor_gradient_steps = -1
    /\ noise_critic_grad_steps = 1
    /\ critic_backup_combine_type \in CombineInputs
    /\ log_ent_coef = Finite(0)
    /\ ent_coef_optimizer = "Adam"
    /\ ent_coef_tensor = None
    /\ actor = 0 /\ critic = 0 /\ critic_noise = 0
    /\ critic_target = [n |-> 0, src |-> 0]
    /\ n_updates = 0
    /\ logger = [ent_coef |-> None, ent_coef_loss |-> FALSE]
    /\ gradient_steps = 1 /\ gradient_step = 0
    /\ actor_gradient_idx = {0}
    /\ ent_coef \in EntCoefValues
    /\ ent_coefs = <<>> /\ ent_coef_losses = 0
    /\ actor_losses = 0 /\ critic_losses = 0 /\ noise_critic_losses = 0
    /\ next_q_values = None
    /\ calls = 1 /\ at_call = [actor |-> 0, critic |-> 0, critic_noise |-> 0]
    /\ log_read = None /\ synced_at = None
    /\ sync_log = <<>> /\ distill_reads = {}
    /\ num_timesteps = 0
    /\ use_sde = FALSE /\ use_sde_at_warmup = FALSE
    /\ last_obs = 0
    /\ diffusion_policy = "affine"
    /\ sampled = None
    /\ \E batch \in [1..BatchSize -> TransitionInputs] :
          /\ replay_data = [rewards |-> [i \in 1..BatchSize |-> batch[i][1]],
                            dones |-> [i \in 1..BatchSize |-> batch[i][2]]]
          /\ next_log_prob = [i \in 1..BatchSize |-> batch[i][3]]
    /\ critic_target_out \in [1..NCritics -> [1..BatchSize -> QInputs]]
    /\ target_q_values = None
    /\ actor_loss = None

NextBackup == TargetQValues

SpecBackup == InitBackup /\ [][NextBackup]_vars

Next ==
    \/ SetupModel
    \/ Train
    \/ EntCoefStep
    \/ CriticBackup
    \/ CriticStep
    \/ ActorStep
    \/ TargetUpdate
    \/ NoiseCriticStep
    \/ Report

Spec == Init /\ [][Next]_vars

\* ================================================================== claims
InTrainLoop == pc \in {"ent", "backup", "critic", "actor", "target"}
PhaseOneDone == pc = "distill" \/ (pc = "idle" /\ calls > 0)
MinOf(a, b) == IF a < b THEN a ELSE b

\* C1: with actor_gradient_steps = K > 0, a train call of G >= 1 gradient
\* steps performs exactly min(K, G) actor optimizer steps.
C1_ActorStepCount ==
    (PhaseOneDone /\ actor_gradient_steps > 0)
        => /\ actor - at_call.actor = MinOf(actor_gradient_steps, gradient_steps)
           /\ actor_losses = MinOf(actor_gradient_steps, gradient_steps)

\* a finished call with K > G > 1, all G steps having updated the actor
C1_Witness ==
    /\ pc = "idle" /\ calls > 0
    /\ actor_gradient_steps > gradient_steps /\ gradient_steps > 1
    /\ actor - at_call.actor = gradient_steps

\* a finished call with 1 < K < G and K not dividing G
C1_WitnessNotDividing ==
    /\ pc = "idle" /\ calls > 0
    /\ actor_gradient_steps = 2 /\ gradient_steps = 3
    /\ actor - at_call.actor = 2

\* C2: counting gradient steps across train calls, the target update runs on
\* exactly one of every target_update_interval consecutive gradient steps.
C2_TargetEveryInterval ==
    \A i \in 1..(Len(sync_log) - target_update_interval + 1) :
        Cardinality({j \in i..(i + target_update_interval - 1) : sync_log[j]}) = 1

\* C3: a target update at gradient step i reads the critic as left by step
\* i's critic optimizer step, and the backup of step i+1 is computed from the
\* target it produced.
C3_SyncReadsUpdatedCritic ==
    /\ (synced_at # None /\ synced_at.call = calls)
          => critic_target.src = at_call.critic + synced_at.step + 1
    /\ (pc \in {"critic", "actor", "target"} /\ gradient_step >= 1
          /\ synced_at = [call |-> calls, step |-> gradient_step - 1])
          => next_q_values.target.src = at_call.critic + gradient_step

\* the backup of step 1 of the second call, after the target update of step 0
C3_Witness ==
    /\ pc = "critic" /\ calls = 2 /\ gradient_step = 1
    /\ synced_at = [call |-> 2, step |-> 0]
    /\ next_q_values.target = critic_target

C4_WitnessUnderflow ==
    /\ pc = "backup" /\ self_ent_coef = Str(s_auto)
    /\ log_read # NegInf /\ ent_coef = Zero

\* C5: an ent_coef string that is not "auto", not "auto_X" with X a float > 0
\* and not a float makes _setup_model raise and creates no coefficient.
IsAutoX(str) ==
    /\ StartsWith(str, Append(s_auto, "_"))
    /\ CanParseFloat(SubSeq(str, 6, Len(str)))
Malformed(str) ==
    /\ str # s_auto
    /\ ~(IsAutoX(str) /\ IsPositive(ParseFloat(SubSeq(str, 6, Len(str)))))
    /\ ~CanParseFloat(str)
C5_MalformedEntCoefRejected ==
    (pc # "new" /\ self_ent_coef.type = "str" /\ Malformed(self_ent_coef.v))
        => /\ pc = "setup_error"
           /\ log_ent_coef = None
           /\ ent_coef_optimizer = "None"
           /\ ent_coef_tensor = None

\* C6: a critic_backup_combine_type other than "min" or "mean" is rejected
\* before any entropy, critic, actor, target or noise-critic update.
C6_UnknownCombineRejected ==
    critic_backup_combine_type \notin {"min", "mean"}
        => /\ log_read = None
           /\ critic = 0 /\ actor = 0 /\ critic_noise = 0
           /\ critic_target.n = 0

\* C7: every train call runs exactly noise_critic_grad_steps distillation
\* steps, all after the last of its G gradient steps, each reading the critic
\* left by the last critic update of the call.
C7_DistillationAfterPhaseOne ==
    /\ InTrainLoop => (noise_critic_losses = 0 /\ critic_noise = at_call.critic_noise)
    /\ (pc = "idle" /\ calls > 0)
          => /\ noise_critic_losses = noise_critic_grad_steps
             /\ critic_noise - at_call.critic_noise = noise_critic_grad_steps
    /\ distill_reads \subseteq {at_call.critic + gradient_steps}
    /\ pc = "distill" => critic = at_call.critic + gradient_steps

\* a finished call of three gradient steps, one actor step, two distillations
C7_Witness ==
    /\ pc = "idle" /\ calls > 0
    /\ gradient_steps = 3 /\ actor_gradient_steps = 1
    /\ noise_critic_grad_steps = 2 /\ critic_noise - at_call.critic_noise = 2
    /\ distill_reads = {critic}

\* C8: only the target update changes the target critic, and it changes
\* neither the actor, the critic, the noise critic nor the entropy coefficient.
C8_TargetFrame ==
    [][/\ critic_target' # critic_target
            => /\ pc = "target"
               /\ UNCHANGED <<actor, critic, critic_noise, entVars>>
       /\ (\/ actor' # actor \/ critic' # critic \/ critic_noise' # critic_noise
           \/ log_ent_coef' # log_ent_coef)
            => critic_target' = critic_target]_vars

\* every kind of update has run at least once
C8_Witness ==
    /\ critic_target.n > 0 /\ actor > 0 /\ critic > 0 /\ critic_noise > 0
    /\ log_read # None /\ log_ent_coef # log_read

\* C9 as stated: with a fixed ent_coef c there is no entropy optimizer, no
\* entropy loss, and the coefficient used and reported is exactly c.
IsFixed == pc # "new" /\ ~IsAuto(self_ent_coef) /\ ~SetupRaises(self_ent_coef)
C9_FixedEntCoefExact ==
    IsFixed
        => /\ ent_coef_optimizer = "None" /\ log_ent_coef = None
           /\ ent_coef_losses = 0 /\ ~logger.ent_coef_loss
           /\ ent_coef # None => ent_coef = FixedValue(self_ent_coef)
           /\ \A i \in 1..Len(ent_coefs) : ent_coefs[i] = FixedValue(self_ent_coef)
           /\ logger.ent_coef # None => logger.ent_coef = FixedValue(self_ent_coef)

\* C9 amended: the coefficient used and reported is exactly the float32
\* rounding of c (c itself when c is a float32 value).
C9_FixedEntCoefFloat32 ==
    IsFixed
        => /\ ent_coef_optimizer = "None" /\ log_ent_coef = None
           /\ ent_coef_losses = 0 /\ ~logger.ent_coef_loss
           /\ ent_coef # None => ent_coef = ToFloat32(FixedValue(self_ent_coef))
           /\ \A i \in 1..Len(ent_coefs) : ent_coefs[i] = ToFloat32(FixedValue(self_ent_coef))
           /\ logger.ent_coef # None => logger.ent_coef = ToFloat32(FixedValue(self_ent_coef))

\* two finished calls with ent_coef = 0.2, reported as the float32 nearest 0.2
C9_Witness ==
    /\ pc = "idle" /\ calls = 2 /\ n_updates > 2
    /\ self_ent_coef = Float(ParseFloat(s_0_2))
    /\ logger.ent_coef = ToFloat32(ParseFloat(s_0_2))
    /\ logger.ent_coef # ParseFloat(s_0_2)

TdFormula(r, done, c, coef, logp) ==
    RAdd(r, RMul(RMul(RSub(R(1, 1), done), gamma), RSub(c, RMul(coef, logp))))

\* what the target critics said about transition i
OutputsFor(i) == {critic_target_out[k][i] : k \in 1..NCritics}

IsMinFor(c, i) == c \in OutputsFor(i) /\ \A o \in OutputsFor(i) : RLeq(c, o)

RECURSIVE SumUpTo(_, _)
SumUpTo(k, i) ==
    IF k = 0 THEN R(0, 1) ELSE RAdd(critic_target_out[k][i], SumUpTo(k - 1, i))

IsMeanFor(c, i) == RMul(R(NCritics, 1), c) = SumUpTo(NCritics, i)

\* C11: for every transition of the batch the TD target is one number,
\* reward + (1 - done) * gamma * (combine(target critic outputs) - ent_coef *
\* next_log_prob), combine being the minimum under "min" and the arithmetic
\* mean under "mean"; with done = 1 the target is the reward alone.
C11_TdTarget ==
    (target_q_values # None /\ critic_backup_combine_type \in {"min", "mean"})
        => \A i \in 1..BatchSize :
              LET r == replay_data.rewards[i]
                  done == replay_data.dones[i]
              IN  /\ Len(target_q_values[i]) = 1
                  /\ \E c \in {R(n, NCritics) : n \in 3 * NCritics..5 * NCritics} :
                        /\ IF critic_backup_combine_type = "min"
                           THEN IsMinFor(c, i) ELSE IsMeanFor(c, i)
                        /\ target_q_values[i][1] =
                             TdFormula(r, done, c, ent_coef, next_log_prob[i])
                  /\ done = R(1, 1) => target_q_values[i][1] = r

\* under "mean" a transition whose critics said 3 and 5 is backed up from 4,
\* next to a terminal transition whose target is its reward
C11_Witness ==
    /\ target_q_values # None
    /\ critic_backup_combine_type = "mean"
    /\ \E i \in 1..BatchSize :
          /\ OutputsFor(i) = {R(3, 1), R(5, 1)}
          /\ IsMeanFor(R(4, 1), i)
          /\ replay_data.dones[i] = R(0, 1)
          /\ target_q_values[i] =
               <<TdFormula(replay_data.rewards[i], R(0, 1), R(4, 1), ent_coef,
                           next_log_prob[i])>>
    /\ \E j \in 1..BatchSize :
          /\ replay_data.dones[j] = R(1, 1)
          /\ target_q_values[j] = <<replay_data.rewards[j]>>

IsLearned == ent_coef_optimizer # "None"

\* the coefficient of the step in progress, wherever the step has used it so far
StepUsesCoefficientRead ==
    /\ pc \in {"backup", "critic", "actor", "target"}
         => /\ ent_coef = Exp(log_read)
            /\ ent_coefs[Len(ent_coefs)] = Exp(log_read)
            /\ log_ent_coef \in AdamStep(log_read)
    /\ pc \in {"critic", "actor", "target"} => next_q_values.ent_coef = Exp(log_read)
    /\ (pc = "target" /\ gradient_step \in actor_gradient_idx)
         => actor_loss = [ent_coef |-> Exp(log_read)]

\* C12: with a learned coefficient, the value a gradient step reports and uses
\* in its critic backup and its actor loss is exp(log_ent_coef) as read before
\* that step's entropy optimizer step; what the optimizer wrote stays in
\* log_ent_coef untouched until the next step reads it.
C12_CoefficientReadBeforeOptimizerStep ==
    /\ [](IsLearned => StepUsesCoefficientRead)
    /\ [][(IsLearned /\ pc = "ent") => (/\ log_read' = log_ent_coef
                                       /\ ent_coef' = Exp(log_ent_coef)
                                       /\ log_ent_coef' \in AdamStep(log_ent_coef))]_vars
    /\ [][(IsLearned /\ pc # "ent") => log_ent_coef' = log_ent_coef]_vars

\* the second step of a call, after its actor update: it used what the first
\* step's optimizer wrote, and its own optimizer has since written another value
C12_Witness ==
    /\ IsLearned /\ pc = "target" /\ gradient_step = 1
    /\ gradient_step \in actor_gradient_idx
    /\ actor_loss = [ent_coef |-> ent_coef]
    /\ next_q_values.ent_coef = ent_coef
    /\ ent_coefs[2] = ent_coef /\ ent_coefs[1] # ent_coefs[2]
    /\ log_ent_coef # log_read /\ Exp(log_ent_coef) # ent_coef

====
